---- MODULE Spec2Model ----
(***************************************************************************)
(* Lite Jira Update Action, multi-key revision (src/unnamed/part_002,      *)
(* lines 158-387).  One run of runWithPR against one pull_request event.   *)
(*                                                                         *)
(* A text is a sequence of one-character strings; an issue key is such a   *)
(* sequence too.  A JavaScript value that may be absent is a record with   *)
(* a type tag (Str, Undefined, Null).                                      *)
(***************************************************************************)
EXTENDS Integers, Sequences, FiniteSets, TLC

(***************************************************************************)
(* Bounds of the model.                                                    *)
(***************************************************************************)
MaxCommits == 1
MaxSubtasks == 1
MaxLinks == 1
MaxTokens == 3

SeqUpTo(S, n) == UNION {[1..m -> S] : m \in 0..n}

(***************************************************************************)
(* JavaScript values.                                                      *)
(***************************************************************************)
Str(s) == [type |-> "string", chars |-> s]
Undefined == [type |-> "undefined", chars |-> <<>>]
Null == [type |-> "null", chars |-> <<>>]

\* !text : undefined, null and "" are falsy, every other string is truthy
Falsy(v) == v.type # "string" \/ v.chars = <<>>

Range(s) == {s[n] : n \in DOMAIN s}

RECURSIVE Flatten(_)
Flatten(ss) == IF ss = <<>> THEN <<>> ELSE Head(ss) \o Flatten(Tail(ss))

\* variant: an array push, which keeps duplicates
SetAddPush(set, k) == Append(set, k)

\* Set.prototype.add on an insertion-ordered set
SetAdd(set, k) == IF k \in Range(set) THEN set ELSE Append(set, k)

\* variant: every key is pushed, as to an array
SetAddAllPush(set, ks) == set \o ks

RECURSIVE SetAddAll(_, _)
SetAddAll(set, ks) ==
  IF ks = <<>> THEN set ELSE SetAddAll(SetAdd(set, Head(ks)), Tail(ks))

(***************************************************************************)
(* String.prototype.toUpperCase and the character classes of the regular   *)
(* expression /\b[A-Z]{2,10}-\d+\b/g (no u flag: \b, \d are ASCII).        *)
(***************************************************************************)
LowerAlpha == <<"a","b","c","d","e","f","g","h","i","j","k","l","m",
                "n","o","p","q","r","s","t","u","v","w","x","y","z">>
UpperAlpha == <<"A","B","C","D","E","F","G","H","I","J","K","L","M",
                "N","O","P","Q","R","S","T","U","V","W","X","Y","Z">>
Digits == {"0","1","2","3","4","5","6","7","8","9"}

UpperLetters == Range(UpperAlpha)
LowerLetters == Range(LowerAlpha)
WordChars == UpperLetters \cup LowerLetters \cup Digits \cup {"_"}

\* the capital of each small letter
UpperOf ==
  [c \in LowerLetters |->
     UpperAlpha[CHOOSE n \in DOMAIN LowerAlpha : LowerAlpha[n] = c]]

\* the Kelvin sign U+212A: a capital letter outside A-Z whose small form is
\* the ASCII k; one element of a text stands for one character
Kelvin == "KelvinSign"

\* the characters a character becomes
toUpperChar(c) == IF c \in LowerLetters THEN <<UpperOf[c]>> ELSE <<c>>

\* variant: the text is matched as written
toUpperCaseNone(s) == s

toUpperCase(s) == Flatten([n \in DOMAIN s |-> toUpperChar(s[n])])

IsUpper(c) == c \in UpperLetters
IsDigit(c) == c \in Digits
IsWord(c) == c \in WordChars

MinLetters == 2
MaxLetters == 10

IsWordAt(u, p) == p \in DOMAIN u /\ IsWord(u[p])

\* variant: the pattern without its \b anchors
WordBoundaryNone(u, p) == TRUE

\* \b between u[p-1] and u[p]
WordBoundary(u, p) == IsWordAt(u, p - 1) # IsWordAt(u, p)

RECURSIVE RunLen(_, _, _)
\* number of consecutive characters of class digit/letter starting at p
RunLen(u, p, digit) ==
  IF p \in DOMAIN u /\ (IF digit THEN IsDigit(u[p]) ELSE IsUpper(u[p]))
  THEN 1 + RunLen(u, p + 1, digit) ELSE 0

Min(a, b) == IF a < b THEN a ELSE b
Max(S) == CHOOSE x \in S : \A y \in S : y <= x

\* The ends e of a match of the pattern that starts at p, taking n letters.
MatchEndsWith(u, p, n) ==
  { p + n + m : m \in { m \in 1..RunLen(u, p + n + 1, TRUE) :
                          WordBoundary(u, p + n + 1 + m) } }

\* One attempt of the regular expression at position p: the end of the match,
\* 0 when there is none.  The quantifiers are greedy and backtrack: the
\* longest letter run first, and for it the longest digit run first.
MatchEnd(u, p) ==
  LET ns == { n \in MinLetters..Min(RunLen(u, p, FALSE), MaxLetters) :
                /\ WordBoundary(u, p)
                /\ p + n \in DOMAIN u /\ u[p + n] = "-"
                /\ MatchEndsWith(u, p, n) # {} }
  IN IF ns = {} THEN 0 ELSE Max(MatchEndsWith(u, p, Max(ns)))

RECURSIVE MatchFrom(_, _)
\* String.prototype.match with the g flag: every match, left to right, the
\* scan resuming after the end of the previous match.
MatchFrom(u, p) ==
  IF p > Len(u) THEN <<>>
  ELSE LET e == MatchEnd(u, p)
       IN IF e > 0 THEN <<SubSeq(u, p, e)>> \o MatchFrom(u, e + 1)
                   ELSE MatchFrom(u, p + 1)

\* variant: the regular expression without the g flag
MatchFirst(u) == IF MatchFrom(u, 1) = <<>> THEN <<>> ELSE <<MatchFrom(u, 1)[1]>>

MatchAll(u) == MatchFrom(u, 1)

RECURSIVE extractInto(_, _)
\* the loop of extractIssueKeys over the fragments, keys being the Set so far
extractInto(keys, texts) ==
  IF texts = <<>> THEN keys
  ELSE IF Falsy(Head(texts)) THEN extractInto(keys, Tail(texts))
  ELSE extractInto(SetAddAll(keys, MatchAll(toUpperCase(Head(texts).chars))),
                   Tail(texts))

extractIssueKeys(texts) == extractInto(<<>>, texts)

(***************************************************************************)
(* Inputs of a run: the environment, the event payload, and what the       *)
(* hosting platform and the tracker answer.                                *)
(***************************************************************************)
KeyAB1 == <<"A","B","-","1">>
KeyCD2 == <<"C","D","-","2">>
KeyXY5 == <<"X","Y","-","5">>

EnvValues == {Undefined, Str(<<>>), Str(<<"s","e","t">>)}

Titles == { Str(<<"f","i","x">>),
            Str(KeyAB1 \o <<":"," ","f","i","x">>),
            Str(<<"a","b","-","1">> \o <<" ">> \o KeyCD2) }
Refs == { Undefined, Str(<<"f","/">> \o KeyCD2 \o <<"-","x">>) }
Bodies == { Null, Str(KeyAB1 \o <<",">> \o KeyAB1) }
Messages == { Undefined, Str(KeyCD2 \o <<"\n">> \o KeyAB1) }
FileLists == { <<"index.js">> }

NoPR == [present |-> FALSE, merged |-> "undefined",
         title |-> Undefined, ref |-> Undefined, body |-> Undefined]
PullRequests ==
  {NoPR} \cup [present : {TRUE}, merged : {"true", "false", "undefined"},
               title : Titles, ref : Refs, body : Bodies]

\* the data of pulls.listCommits: each commit's commit?.message
CommitLists == SeqUpTo(Messages, MaxCommits)

\* a key field of a tracker response: absent, or a string
TrackerKeys == {Undefined, Str(KeyAB1), Str(KeyXY5)}
IssueLinks == [inwardIssue : TrackerKeys, outwardIssue : TrackerKeys]
\* fetch rejects; a non-success status; a body that does not parse or has
\* no fields object
ResolverFailures == {"neterr", "http", "malformed"}
ResolverResponses ==
  [kind : ResolverFailures, subtasks : {<<>>}, issuelinks : {<<>>}]
  \cup [kind : {"ok"}, subtasks : SeqUpTo(TrackerKeys, MaxSubtasks),
        issuelinks : SeqUpTo(IssueLinks, MaxLinks)]

\* what a POST of a comment comes back with: a success status with a JSON
\* body, a success status whose body does not parse, a non-success status,
\* a transport error
PublishResponses == {"ok", "okbadjson", "http", "neterr"}

(***************************************************************************)
(* getRelatedIssueKeys, lines 201-245, on the response it receives.        *)
(***************************************************************************)
RECURSIVE addSubtasks(_, _)
addSubtasks(relatedKeys, subtasks) ==
  IF subtasks = <<>> THEN relatedKeys
  ELSE addSubtasks(IF Falsy(Head(subtasks)) THEN relatedKeys
                   ELSE SetAdd(relatedKeys, Head(subtasks).chars),
                   Tail(subtasks))

RECURSIVE addLinks(_, _)
addLinks(relatedKeys, links) ==
  IF links = <<>> THEN relatedKeys
  ELSE LET inward == Head(links).inwardIssue
           outward == Head(links).outwardIssue
           a == IF Falsy(inward) THEN relatedKeys
                ELSE SetAdd(relatedKeys, inward.chars)
           b == IF Falsy(outward) THEN a ELSE SetAdd(a, outward.chars)
       IN addLinks(b, Tail(links))

getRelatedIssueKeys(response) ==
  IF response.kind # "ok" THEN <<>>
  ELSE addLinks(addSubtasks(<<>>, response.subtasks), response.issuelinks)

(***************************************************************************)
(* getCommits, lines 283-292, and buildComment, lines 311-333.             *)
(***************************************************************************)
NoMessage == <<"(","n","o"," ","m","e","s","s","a","g","e",")">>

messageOf(m) == IF Falsy(m) THEN NoMessage ELSE m.chars

RECURSIVE firstLine(_)
\* message.split("\n")[0]
firstLine(s) ==
  IF s = <<>> \/ Head(s) = "\n" THEN <<>> ELSE <<Head(s)>> \o firstLine(Tail(s))

commitsOf(data) ==
  [lines |-> [n \in DOMAIN data |-> firstLine(messageOf(data[n]))],
   messages |-> [n \in DOMAIN data |-> Str(messageOf(data[n]))]]

buildComment(p, filesChanged, lines) ==
  [title |-> p.title, body |-> p.body, files |-> filesChanged, commits |-> lines]

NoCommits == [lines |-> <<>>, messages |-> <<>>]

NoComment == [title |-> Undefined, body |-> Undefined, files |-> <<>>,
              commits |-> <<>>]

(***************************************************************************)
(* The state of one run.                                                   *)
(***************************************************************************)
VARIABLES
  JIRA_TOKEN,   \* process.env.JIRA_TOKEN
  JIRA_DOMAIN,  \* process.env.JIRA_DOMAIN
  pr,           \* github.context.payload.pull_request
  pc,           \* where runWithPR is: the await it is suspended on
  exit,         \* how runWithPR ended
  failed,       \* core.setFailed was called
  texts,        \* the fragments handed to extractIssueKeys
  commits,      \* what getCommits returned: lines and messages
  issueKeys,    \* the array extractIssueKeys returned (the seed keys)
  commentText,  \* the body built by buildComment
  allKeys,      \* the Set allKeys, in insertion order
  cursor,       \* position of the running for-of loop in what it walks
  calls,        \* every network request issued so far, in order
  resolved,     \* every answer of getRelatedIssueKeys so far, in order
  published     \* every finished postComment so far, in order

vars == <<JIRA_TOKEN, JIRA_DOMAIN, pr, pc, exit, failed, texts, commits,
          issueKeys, commentText, allKeys, cursor, calls, resolved, published>>

Call(kind, k) == [kind |-> kind, key |-> k]

Idle ==
  /\ exit = "none"
  /\ failed = FALSE
  /\ commits = NoCommits
  /\ issueKeys = <<>>
  /\ commentText = NoComment
  /\ allKeys = <<>>
  /\ cursor = 0
  /\ calls = <<>>
  /\ resolved = <<>>
  /\ published = <<>>

Init ==
  /\ JIRA_TOKEN \in EnvValues
  /\ JIRA_DOMAIN \in EnvValues
  /\ pr \in PullRequests
  /\ pc = "runWithPR"
  /\ texts = <<>>
  /\ Idle

\* variant: the status follows the outcome of the latest step
MarkFailedLatest(was, fails) == fails

\* the run's status after a step: core.setFailed (lines 186, 197, 337, 342,
\* 363) sets it to failed, and a step that does not call it (the success path
\* of lines 192-195, a return of runWithPR) leaves it as it was
MarkFailed(was, fails) == was \/ fails

\* the run ends, by a return or by an error nobody catches
Finish(how, fail) ==
  /\ pc' = "done"
  /\ exit' = how
  /\ failed' = MarkFailed(failed, fail)

\* variant: the loop walks the live Set it is adding to
ResolveQueueLive(seeds, all) == all

\* for (const issueKey of issueKeys), line 374: what the expansion loop walks
ResolveQueue(seeds, all) == seeds

\* variant: the related keys are pushed to a list
MergePush(all, relatedKeys) == all \o relatedKeys

\* relatedKeys.forEach((k) => allKeys.add(k)), line 377
Merge(all, relatedKeys) == SetAddAll(all, relatedKeys)

\* variant: only the token is validated
ConfigMissingTokenOnly(token, domain) == Falsy(token)

\* if (!JIRA_TOKEN) ... if (!JIRA_DOMAIN) ..., lines 336-344
ConfigMissing(token, domain) == Falsy(token) \/ Falsy(domain)

\* variant: only an explicit merged === false stops the run
wasMergedUnlessFalse(p) == p.present /\ p.merged # "false"

\* const wasMerged = pr?.merged, line 347
wasMerged(p) == p.present /\ p.merged = "true"

\* variant: the array itself is tested, and an array is always truthy
NoKeysFoundTruthy(found) == FALSE

\* issueKeys.length === 0, line 362
NoKeysFound(found) == Len(found) = 0

\* variant: reading data.fields of a malformed body is outside the try
getRelatedIssueKeysThrowsMalformed(response) == response.kind = "malformed"

\* try ... catch of getRelatedIssueKeys, lines 205 and 239-244: whether an
\* error leaves the function
getRelatedIssueKeysThrows(response) == FALSE

\* variant: a transport error is not caught
postCommentThrowsTransport(response) == response = "neterr"

\* try ... catch of postComment, lines 172 and 196-198: whether an error
\* leaves the function
postCommentThrows(response) == FALSE

\* variant: a failed query marks the run as a failed publish does
ResolveFailsOnError(response) == response.kind # "ok"

\* console.warn in getRelatedIssueKeys, lines 217 and 240: whether a query's
\* outcome marks the run failed
ResolveFails(response) == FALSE

\* variant: the expansion loop is left after its first query
ExpansionDoneEarly(position, queue) == TRUE

\* for (const issueKey of issueKeys), lines 374-378: the loop has walked the
\* whole of what it iterates
ExpansionDone(position, queue) == position >= Len(queue)

\* variant: the targets are walked from the second on, the first one last
PublishQueueRotated(all) == Tail(all) \o <<Head(all)>>

\* for (const key of allKeys), line 381: the Set is walked in insertion order
PublishQueue(all) == all

\* variant: each target gets a body of its own
PublishBodyPerKey(text, key) == [text EXCEPT !.title = Str(key)]

\* postComment(key, commentText), line 383, and JSON.stringify({ body:
\* commentText }), line 181: the body sent to the target key
PublishBody(text, key) == text

\* variant: the merge gate stands before the configuration checks
StartGateMergeFirst(token, domain, p) ==
  IF ~wasMerged(p) THEN "unmerged"
  ELSE IF ConfigMissing(token, domain) THEN "config" ELSE "pass"

\* the order of the early returns of runWithPR, lines 336-352: the two
\* configuration checks, then the merge gate
StartGate(token, domain, p) ==
  IF ConfigMissing(token, domain) THEN "config"
  ELSE IF ~wasMerged(p) THEN "unmerged" ELSE "pass"

\* runWithPR up to its first await, lines 336-354
Start ==
  /\ pc = "runWithPR"
  /\ IF StartGate(JIRA_TOKEN, JIRA_DOMAIN, pr) = "config"
     THEN Finish("config", TRUE) /\ UNCHANGED calls
     ELSE IF StartGate(JIRA_TOKEN, JIRA_DOMAIN, pr) = "unmerged"
     THEN Finish("unmerged", FALSE) /\ UNCHANGED calls
     ELSE /\ pc' = "getCommits"
          /\ calls' = Append(calls, Call("listCommits", <<>>))
          /\ UNCHANGED <<exit, failed>>
  /\ UNCHANGED <<JIRA_TOKEN, JIRA_DOMAIN, pr, texts, commits, issueKeys, commentText,
                 allKeys, cursor, resolved, published>>

\* pulls.listCommits rejects: the error leaves getCommits and runWithPR
CommitsThrow ==
  /\ pc = "getCommits"
  /\ Finish("escaped", FALSE)
  /\ UNCHANGED <<JIRA_TOKEN, JIRA_DOMAIN, pr, texts, commits, issueKeys, commentText,
                 allKeys, cursor, calls, resolved, published>>

\* pulls.listCommits answers: lines 283-292 and 355-369
CommitsReturn ==
  /\ pc = "getCommits"
  /\ \E data \in CommitLists :
       LET got == commitsOf(data)
           fragments == <<pr.title, pr.ref, pr.body>> \o got.messages
           found == extractIssueKeys(fragments)
       IN /\ commits' = got
          /\ texts' = fragments
          /\ issueKeys' = found
          /\ IF NoKeysFound(found)
             THEN Finish("nokey", TRUE) /\ UNCHANGED calls
             ELSE /\ pc' = "getModifiedFiles"
                  /\ calls' = Append(calls, Call("listFiles", <<>>))
                  /\ UNCHANGED <<exit, failed>>
  /\ UNCHANGED <<JIRA_TOKEN, JIRA_DOMAIN, pr, commentText, allKeys, cursor,
                 resolved, published>>

\* pulls.listFiles rejects: the error leaves getModifiedFiles and runWithPR
FilesThrow ==
  /\ pc = "getModifiedFiles"
  /\ Finish("escaped", FALSE)
  /\ UNCHANGED <<JIRA_TOKEN, JIRA_DOMAIN, pr, texts, commits, issueKeys, commentText,
                 allKeys, cursor, calls, resolved, published>>

\* variant: the queries of all seeds are started together and awaited after
FirstQueriesAll(queue) == queue

\* const relatedKeys = await getRelatedIssueKeys(issueKey), line 376: the
\* loop body awaits its query, so entering the loop starts the first one only
FirstQueries(queue) == <<queue[1]>>

\* pulls.listFiles answers: lines 308, 370-376 up to the first resolver query
FilesReturn ==
  /\ pc = "getModifiedFiles"
  /\ \E filesChanged \in FileLists :
       commentText' = buildComment(pr, filesChanged, commits.lines)
  /\ allKeys' = SetAddAll(<<>>, issueKeys)
  /\ cursor' = 1
  /\ calls' = calls \o
       [n \in DOMAIN FirstQueries(ResolveQueue(issueKeys, allKeys')) |->
          Call("getIssue", FirstQueries(ResolveQueue(issueKeys, allKeys'))[n])]
  /\ pc' = "getRelatedIssueKeys"
  /\ UNCHANGED <<JIRA_TOKEN, JIRA_DOMAIN, pr, exit, failed, texts, commits,
                 issueKeys, resolved, published>>

\* a resolver query comes back: lines 215-244, 377, and the next request
ResolveReturnFrom(responses) ==
  /\ pc = "getRelatedIssueKeys"
  /\ \E response \in responses :
       LET issueKey == ResolveQueue(issueKeys, allKeys)[cursor]
           relatedKeys == getRelatedIssueKeys(response)
           merged == Merge(allKeys, relatedKeys)
           queue == ResolveQueue(issueKeys, merged)
       IN /\ resolved' = Append(resolved, [key |-> issueKey,
                                           response |-> response.kind,
                                           related |-> relatedKeys])
          /\ IF getRelatedIssueKeysThrows(response)
             THEN Finish("escaped", FALSE) /\ UNCHANGED <<allKeys, cursor, calls>>
             ELSE /\ allKeys' = merged
                  /\ exit' = exit
                  /\ failed' = MarkFailed(failed, ResolveFails(response))
                  /\ IF ~ExpansionDone(cursor, queue)
                     THEN /\ cursor' = cursor + 1
                          /\ calls' = Append(calls,
                                             Call("getIssue", queue[cursor + 1]))
                          /\ pc' = pc
                     ELSE \* for (const key of allKeys), line 381
                          /\ cursor' = 1
                          /\ calls' = Append(calls,
                                 Call("postComment", PublishQueue(merged)[1]))
                          /\ pc' = "postComment"
  /\ UNCHANGED <<JIRA_TOKEN, JIRA_DOMAIN, pr, texts, commits, issueKeys,
                 commentText, published>>

ResolveReturn == ResolveReturnFrom(ResolverResponses)

\* variant: the catch only logs, as the one of getRelatedIssueKeys does
PublishFailsStatusOnly(response) == response = "http"

\* core.setFailed in postComment, lines 184-198: the outcomes that mark the run
PublishFails(response) == response # "ok"

\* a publish comes back: lines 184-198, and the next request or the end
PublishReturn ==
  /\ pc = "postComment"
  /\ \E response \in PublishResponses :
       /\ published' = Append(published,
            [key |-> PublishQueue(allKeys)[cursor],
             response |-> response,
             body |-> PublishBody(commentText, PublishQueue(allKeys)[cursor])])
       /\ IF postCommentThrows(response)
          THEN Finish("escaped", FALSE) /\ UNCHANGED <<cursor, calls>>
          ELSE IF cursor < Len(allKeys)
          THEN /\ cursor' = cursor + 1
               /\ calls' = Append(calls,
                    Call("postComment", PublishQueue(allKeys)[cursor + 1]))
               /\ pc' = pc
               /\ exit' = exit
               /\ failed' = MarkFailed(failed, PublishFails(response))
          ELSE /\ Finish("completed", PublishFails(response))
               /\ UNCHANGED <<cursor, calls>>
  /\ UNCHANGED <<JIRA_TOKEN, JIRA_DOMAIN, pr, texts, commits, issueKeys, commentText,
                 allKeys, resolved>>

Next ==
  \/ Start
  \/ CommitsThrow
  \/ CommitsReturn
  \/ FilesThrow
  \/ FilesReturn
  \/ ResolveReturn
  \/ PublishReturn

Spec == Init /\ [][Next]_vars

\* every network call eventually returns or errors
FairSpec == Spec /\ WF_vars(Next)

(***************************************************************************)
(* extractIssueKeys on its own, lines 247-264, over bounded inputs: a      *)
(* first fragment made of up to MaxTokens tokens, or absent, and a second  *)
(* fragment.                                                               *)
(***************************************************************************)
Tokens == { KeyAB1, <<"a","b","-","1">>, <<"C","D","-","2","2">>,
            <<"A","-","1">>, <<" ">>, <<"-">>, <<"_">> }

TokenFragments ==
  {Undefined, Null} \cup {Str(Flatten(ts)) : ts \in SeqUpTo(Tokens, MaxTokens)}

SecondFragments ==
  { Undefined, Str(<<>>), Str(KeyAB1),
    Str(<<"c","d","-","2","2",";">> \o KeyXY5 \o <<" ">> \o KeyXY5) }

\* texts whose only candidate token is malformed: one letter, eleven
\* letters, no hyphen, no digits
MalformedFragments ==
  { Str(<<"A","-","1","2","3">>),
    Str(<<"a","-","1","2","3">>),
    Str(<<"A","B","C","D","E","F","G","H","K","L","M","-","1">>),
    Str(<<"a","b","c","d","e","f","g","h","k","l","m","-","1">>),
    Str(<<"A","B","C","1","2","3">>),
    Str(<<"A","B","C","-">>) }

\* texts whose token is at the limits of the pattern: two and ten letters
LimitFragments ==
  { Str(<<"A","B","C","D","E","F","G","H","K","L","-","1">>),
    Str(<<"x","y","-","0","5">>) }

\* a text with a letter outside ASCII in front of a key-like token
NonAsciiFragments == { Str(<<Kelvin,"D","-","1">>) }

ExtractInit ==
  /\ JIRA_TOKEN = Undefined
  /\ JIRA_DOMAIN = Undefined
  /\ pr = NoPR
  /\ pc = "extractIssueKeys"
  /\ texts \in {<<a, b>> : a \in TokenFragments \cup MalformedFragments
                                   \cup LimitFragments \cup NonAsciiFragments,
                            b \in SecondFragments}
  /\ Idle

Extract ==
  /\ pc = "extractIssueKeys"
  /\ issueKeys' = extractIssueKeys(texts)
  /\ pc' = "extracted"
  /\ UNCHANGED <<JIRA_TOKEN, JIRA_DOMAIN, pr, exit, failed, texts, commits,
                 commentText, allKeys, cursor, calls, resolved, published>>

ExtractNext == Extract

ExtractSpec == ExtractInit /\ [][ExtractNext]_vars

(***************************************************************************)
(* runWithPR against a tracker that stores a key in small letters: lines   *)
(* 227 and 232-235 take sub.key and link.*.key as the tracker sends them.  *)
(***************************************************************************)
CaseTrackerKeys == {Undefined, Str(<<"a","b","-","1">>), Str(KeyXY5)}
CaseIssueLinks == [inwardIssue : CaseTrackerKeys, outwardIssue : CaseTrackerKeys]
CaseResolverResponses ==
  [kind : {"http"}, subtasks : {<<>>}, issuelinks : {<<>>}]
  \cup [kind : {"ok"}, subtasks : SeqUpTo(CaseTrackerKeys, MaxSubtasks),
        issuelinks : SeqUpTo(CaseIssueLinks, MaxLinks)]

CaseInit ==
  /\ JIRA_TOKEN = Str(<<"s","e","t">>)
  /\ JIRA_DOMAIN = Str(<<"s","e","t">>)
  /\ pr \in {p \in PullRequests : p.merged = "true" /\ p.ref = Undefined
                                   /\ p.body = Null}
  /\ pc = "runWithPR"
  /\ texts = <<>>
  /\ Idle

CaseResolveReturn == ResolveReturnFrom(CaseResolverResponses)

CaseNext ==
  \/ Start
  \/ CommitsThrow
  \/ CommitsReturn
  \/ FilesThrow
  \/ FilesReturn
  \/ CaseResolveReturn
  \/ PublishReturn

CaseSpec == CaseInit /\ [][CaseNext]_vars

(***************************************************************************)
(* The single-key revision: runWithPR of src/index.js, lines 110-136, with *)
(* its extractIssueKey, lines 69-72, and buildComment, lines 90-106.       *)
(***************************************************************************)
\* a || b
OrElse(a, b) == IF Falsy(a) THEN b ELSE a

\* text.match(/\b[A-Z]{2,10}-\d+\b/): the leftmost match of the text as
\* written, or null
extractIssueKey(text) ==
  IF MatchAll(text.chars) = <<>> THEN Null ELSE Str(Head(MatchAll(text.chars)))

SingleTitles == Titles \cup {Str(<<>>), Undefined}

SinglePullRequests ==
  {NoPR} \cup [present : {TRUE}, merged : {"true", "false", "undefined"},
               title : SingleTitles, ref : Refs, body : Bodies]

SingleInit ==
  /\ JIRA_TOKEN \in EnvValues
  /\ JIRA_DOMAIN \in EnvValues
  /\ pr \in SinglePullRequests
  /\ pc = "index.runWithPR"
  /\ texts = <<>>
  /\ Idle

\* runWithPR up to its first await, lines 111-130
SingleStart ==
  /\ pc = "index.runWithPR"
  /\ IF Falsy(JIRA_TOKEN)
     THEN Finish("config", TRUE) /\ UNCHANGED <<texts, issueKeys, calls>>
     ELSE IF ~wasMerged(pr)
     THEN Finish("unmerged", FALSE) /\ UNCHANGED <<texts, issueKeys, calls>>
     ELSE LET text == OrElse(pr.title, pr.ref)
          IN /\ texts' = <<text>>
             /\ IF text.type # "string"
                THEN \* undefined.match: a TypeError nobody catches
                     Finish("escaped", FALSE) /\ UNCHANGED <<issueKeys, calls>>
                ELSE IF Falsy(extractIssueKey(text))
                THEN Finish("nokey", TRUE) /\ UNCHANGED <<issueKeys, calls>>
                ELSE /\ issueKeys' = <<extractIssueKey(text).chars>>
                     /\ calls' = Append(calls, Call("listFiles", <<>>))
                     /\ pc' = "index.getModifiedFiles"
                     /\ UNCHANGED <<exit, failed>>
  /\ UNCHANGED <<JIRA_TOKEN, JIRA_DOMAIN, pr, commits, commentText, allKeys,
                 cursor, resolved, published>>

\* pulls.listFiles rejects: the error leaves getModifiedFiles and runWithPR
SingleFilesThrow ==
  /\ pc = "index.getModifiedFiles"
  /\ Finish("escaped", FALSE)
  /\ UNCHANGED <<JIRA_TOKEN, JIRA_DOMAIN, pr, texts, commits, issueKeys,
                 commentText, allKeys, cursor, calls, resolved, published>>

\* pulls.listFiles answers: lines 87 and 131-133
SingleFilesReturn ==
  /\ pc = "index.getModifiedFiles"
  /\ \E filesChanged \in FileLists :
       commentText' = buildComment(pr, filesChanged, <<>>)
  /\ calls' = Append(calls, Call("postComment", issueKeys[1]))
  /\ pc' = "index.postComment"
  /\ UNCHANGED <<JIRA_TOKEN, JIRA_DOMAIN, pr, exit, failed, texts, commits,
                 issueKeys, allKeys, cursor, resolved, published>>

\* the publish comes back: lines 56-66, and the end of the run
SinglePublishReturn ==
  /\ pc = "index.postComment"
  /\ \E response \in PublishResponses :
       /\ published' = Append(published, [key |-> issueKeys[1],
                                           response |-> response,
                                           body |-> commentText])
       /\ Finish("completed", PublishFails(response))
  /\ UNCHANGED <<JIRA_TOKEN, JIRA_DOMAIN, pr, texts, commits, issueKeys,
                 commentText, allKeys, cursor, calls, resolved>>

SingleNext ==
  \/ SingleStart
  \/ SingleFilesThrow
  \/ SingleFilesReturn
  \/ SinglePublishReturn

SingleSpec == SingleInit /\ [][SingleNext]_vars


(***************************************************************************)
(* Properties of runWithPR.                                                *)
(***************************************************************************)
CallsOf(kind) == {n \in DOMAIN calls : calls[n].kind = kind}

\* C1: when JIRA_TOKEN or JIRA_DOMAIN is missing, the run is marked failed
\* and ends before any key extraction and before any network call.
C1_ConfigErrorBeforeAnyCall ==
  (Falsy(JIRA_TOKEN) \/ Falsy(JIRA_DOMAIN)) =>
    /\ calls = <<>>
    /\ texts = <<>> /\ issueKeys = <<>>
    /\ pc \in {"runWithPR", "done"}
    /\ pc = "done" => (failed /\ exit = "config")

C1_Witness ==
  /\ pc = "done" /\ exit = "config" /\ failed
  /\ ~Falsy(JIRA_TOKEN) /\ Falsy(JIRA_DOMAIN)
  /\ pr.present /\ pr.merged = "true"

\* C2: with valid configuration, a pull request whose merged flag is false
\* or absent ends the run with status success and no network call at all.
C2_UnmergedIsNoOp ==
  (~Falsy(JIRA_TOKEN) /\ ~Falsy(JIRA_DOMAIN)
     /\ (~pr.present \/ pr.merged # "true")) =>
    /\ calls = <<>>
    /\ ~failed
    /\ pc \in {"runWithPR", "done"}
    /\ pc = "done" => exit = "unmerged"

C2_Witness ==
  /\ pc = "done" /\ exit = "unmerged" /\ ~failed /\ calls = <<>>
  /\ pr.present /\ pr.merged = "undefined"

(***************************************************************************)
(* The key-shaped tokens of a text, stated on the text itself: a substring *)
(* of MinLetters to MaxLetters capital letters, a hyphen and one or more   *)
(* digits, with no word character right before or right after it.          *)
(***************************************************************************)
KeyShaped(t) ==
  \E n \in MinLetters..MaxLetters :
    /\ Len(t) >= n + 2
    /\ \A m \in 1..n : t[m] \in UpperLetters
    /\ t[n + 1] = "-"
    /\ \A m \in (n + 2)..Len(t) : t[m] \in Digits

\* u[a..b] is a key-shaped token of u
IsKeyTokenAt(u, a, b) ==
  /\ ~IsWordAt(u, a - 1)
  /\ ~IsWordAt(u, b + 1)
  /\ KeyShaped(SubSeq(u, a, b))

KeyTokensOf(u) ==
  { SubSeq(u, ab[1], ab[2]) :
      ab \in { ab \in (DOMAIN u) \X (DOMAIN u) :
                 ab[1] <= ab[2] /\ IsKeyTokenAt(u, ab[1], ab[2]) } }

StringsOf(fragments) ==
  { toUpperCase(fragments[n].chars) :
      n \in {n \in DOMAIN fragments : fragments[n].type = "string"} }

KeyTokens(fragments) == UNION { KeyTokensOf(u) : u \in StringsOf(fragments) }

HasKeyToken(fragments) ==
  \E u \in StringsOf(fragments) :
    \E a \in DOMAIN u : \E b \in a..Len(u) : IsKeyTokenAt(u, a, b)

\* C3: a merged pull request under valid configuration whose title, branch,
\* description and commit messages hold no issue key ends the run failed,
\* with the commit fetch as its only network call.
C3_NoKeyIsFatal ==
  (texts # <<>> /\ ~HasKeyToken(texts)) =>
    /\ pc = "done" /\ exit = "nokey" /\ failed
    /\ calls = <<Call("listCommits", <<>>)>>
    /\ resolved = <<>> /\ published = <<>>

C3_Witness ==
  /\ pc = "done" /\ exit = "nokey" /\ failed
  /\ Len(texts) = 4 /\ ~HasKeyToken(texts)
  /\ pr.merged = "true" /\ ~Falsy(JIRA_TOKEN) /\ ~Falsy(JIRA_DOMAIN)

RelatedOfSeeds ==
  UNION { Range(resolved[n].related) :
            n \in {n \in DOMAIN resolved : resolved[n].key \in Range(issueKeys)} }

\* C4: the resolver is only ever queried for seed keys, and the final target
\* set is exactly the seed keys united with the resolver's answers for them.
C4_OneHop ==
  /\ \A n \in CallsOf("getIssue") : calls[n].key \in Range(issueKeys)
  /\ Range(allKeys) \subseteq Range(issueKeys) \cup RelatedOfSeeds
  /\ (pc = "postComment" \/ exit = "completed") =>
       Range(allKeys) = Range(issueKeys) \cup RelatedOfSeeds

C4_Witness ==
  /\ exit = "completed"
  /\ Len(resolved) = 2
  /\ KeyXY5 \in Range(resolved[1].related)
  /\ KeyXY5 \notin Range(issueKeys)
  /\ Range(allKeys) = Range(issueKeys) \cup {KeyXY5}

KnownKeys == {KeyAB1, KeyCD2, KeyXY5}

PublishedKeys == {published[n].key : n \in DOMAIN published}

\* C5: once publishing has started, every key of the target set eventually
\* gets its publish attempt, whatever the earlier attempts came back with.
C5_EveryKeyAttempted ==
  \A k \in KnownKeys :
    (pc = "postComment" /\ k \in Range(allKeys)) ~> (k \in PublishedKeys)

C5_Witness ==
  /\ exit = "completed"
  /\ Len(published) = 3
  /\ published[1].response = "neterr"
  /\ published[2].response = "http"
  /\ published[3].response = "ok"

\* C6: no issue key receives more than one publish request in a run.
C6_AtMostOnePublishPerKey ==
  \A a \in CallsOf("postComment") : \A b \in CallsOf("postComment") :
    a # b => calls[a].key # calls[b].key

C6_Witness ==
  /\ exit = "completed"
  /\ pr.title = Str(KeyAB1 \o <<":"," ","f","i","x">>)
  /\ pr.body = Str(KeyAB1 \o <<",">> \o KeyAB1)
  /\ \E n \in DOMAIN resolved : \E m \in DOMAIN resolved :
       /\ resolved[n].key = KeyAB1 /\ resolved[n].related = <<KeyAB1, KeyXY5>>
       /\ resolved[m].key = KeyCD2 /\ resolved[m].related = <<KeyXY5, KeyAB1>>
  /\ Cardinality(CallsOf("postComment")) = 3

\* C7: when some publish attempt came back with a non-success status or a
\* transport error, the run is failed once all attempts have finished.
C7_AnyPublishFailureFailsRun ==
  (exit = "completed"
     /\ \E n \in DOMAIN published : published[n].response \in {"http", "neterr"})
  => failed

C7_Witness ==
  /\ exit = "completed" /\ failed
  /\ Len(published) = 3
  /\ published[1].response = "ok"
  /\ published[2].response = "neterr"
  /\ published[3].response = "ok"

\* C8: a failed resolver query yields an empty result and nothing more: the
\* run goes on, every seed is resolved, stays in the target set and gets
\* its publish attempt.
C8_ResolverFailureIsLocal ==
  /\ \A n \in DOMAIN resolved :
       resolved[n].response # "ok" => resolved[n].related = <<>>
  /\ (\E n \in DOMAIN resolved : resolved[n].response # "ok") =>
       /\ pc = "done" => exit = "completed"
       /\ Range(issueKeys) \subseteq Range(allKeys)
       /\ pc \in {"postComment", "done"} =>
            \A k \in Range(issueKeys) : \E n \in DOMAIN resolved : resolved[n].key = k
       /\ pc = "done" => Range(issueKeys) \subseteq PublishedKeys

C8_Witness ==
  /\ exit = "completed"
  /\ issueKeys = <<KeyAB1, KeyCD2>>
  /\ resolved[1].key = KeyAB1 /\ resolved[1].response = "http"
  /\ resolved[2].key = KeyCD2 /\ resolved[2].response = "ok"
  /\ resolved[2].related = <<KeyXY5>>
  /\ PublishedKeys = {KeyAB1, KeyCD2, KeyXY5}

Reverse(q) == [n \in DOMAIN q |-> q[Len(q) + 1 - n]]

Orders(q) == { [n \in DOMAIN q |-> q[f[n]]] : f \in Permutations(DOMAIN q) }

AnswerOf(k) == resolved[CHOOSE n \in DOMAIN resolved : resolved[n].key = k].related

RECURSIVE ExpandIn(_, _, _)
\* the expansion loop run over the seeds in the given order, each answer
\* merged front to back or back to front
ExpandIn(all, order, backwards) ==
  IF order = <<>> THEN all
  ELSE ExpandIn(Merge(all, IF backwards THEN Reverse(AnswerOf(Head(order)))
                           ELSE AnswerOf(Head(order))),
                Tail(order), backwards)

\* C9: the final target set is the same whatever the order the seeds are
\* resolved in and the related keys merged in, and merging an answer again,
\* or the queried key itself, changes nothing.
C9_MergeOrderIndependentIdempotent ==
  (pc = "postComment" \/ exit = "completed") =>
    /\ \A order \in Orders(issueKeys) : \A backwards \in BOOLEAN :
         Range(ExpandIn(SetAddAll(<<>>, order), order, backwards)) = Range(allKeys)
    /\ \A n \in DOMAIN resolved :
         /\ Merge(allKeys, resolved[n].related) = allKeys
         /\ Merge(allKeys, <<resolved[n].key>>) = allKeys

C9_Witness ==
  /\ exit = "completed"
  /\ issueKeys = <<KeyAB1, KeyCD2>>
  /\ resolved[1].related = <<KeyAB1, KeyXY5>>
  /\ resolved[2].related = <<KeyXY5>>
  /\ allKeys = <<KeyAB1, KeyCD2, KeyXY5>>

\* C10: extractIssueKeys returns exactly the key-shaped tokens of its
\* fragments, every occurrence counted and each key once; an absent or
\* empty fragment adds nothing.
C10_ExtractsEveryKeyOnce ==
  pc = "extracted" =>
    /\ Range(issueKeys) = KeyTokens(texts)
    /\ Cardinality(Range(issueKeys)) = Len(issueKeys)

C10_Witness ==
  /\ pc = "extracted"
  /\ texts[1] = Str(KeyAB1 \o <<" ","C","D","-","2","2">>)
  /\ texts[2] = Str(<<"c","d","-","2","2",";">> \o KeyXY5 \o <<" ">> \o KeyXY5)
  /\ issueKeys = <<KeyAB1, <<"C","D","-","2","2">>, KeyXY5>>

\* k is 2 to 10 capital ASCII letters, one hyphen, one or more digits
WellFormedKey(k) ==
  \E n \in 2..10 :
    /\ Len(k) >= n + 2
    /\ \A m \in 1..n : k[m] \in UpperLetters
    /\ k[n + 1] = "-"
    /\ \A m \in (n + 2)..Len(k) : k[m] \in Digits

\* k stands in u with no word character right before or right after it
Delimited(k, u) ==
  \E a \in DOMAIN u :
    /\ a + Len(k) - 1 <= Len(u)
    /\ SubSeq(u, a, a + Len(k) - 1) = k
    /\ ~IsWordAt(u, a - 1)
    /\ ~IsWordAt(u, a + Len(k))

\* C11: every key extractIssueKeys returns is 2 to 10 letters, a hyphen and
\* digits, delimited by word boundaries in its fragment; a text whose only
\* candidate has one letter, eleven letters, no hyphen or no digits yields
\* no key.
C11_OnlyWellFormedKeys ==
  pc = "extracted" =>
    /\ \A k \in Range(issueKeys) :
         /\ WellFormedKey(k)
         /\ \E u \in StringsOf(texts) : Delimited(k, u)
    /\ (texts[1] \in MalformedFragments /\ Falsy(texts[2])) => issueKeys = <<>>

C11_Witness ==
  /\ pc = "extracted"
  /\ texts[1] = Str(<<"A","B","C","D","E","F","G","H","K","L","M","-","1">>)
  /\ texts[2] = Undefined
  /\ issueKeys = <<>>

\* the small form of each character (String.prototype.toLowerCase)
LowerOf(c) ==
  IF c \in UpperLetters
  THEN LowerAlpha[CHOOSE n \in DOMAIN UpperAlpha : UpperAlpha[n] = c]
  ELSE IF c = Kelvin THEN "k" ELSE c

CapitalOf(c) == IF c \in LowerLetters THEN UpperOf[c] ELSE c

SwapOf(c) == IF c \in LowerLetters THEN UpperOf[c] ELSE LowerOf(c)

\* the re-casings of one text: all small, all capital, every letter swapped,
\* every other letter swapped
RecasingsOf(s) ==
  { [n \in DOMAIN s |-> LowerOf(s[n])],
    [n \in DOMAIN s |-> CapitalOf(s[n])],
    [n \in DOMAIN s |-> SwapOf(s[n])],
    [n \in DOMAIN s |-> IF n % 2 = 1 THEN SwapOf(s[n]) ELSE s[n]],
    [n \in DOMAIN s |-> IF n % 2 = 0 THEN SwapOf(s[n]) ELSE s[n]] }

RecasingsOfValue(v) ==
  IF v.type = "string" THEN {Str(s) : s \in RecasingsOf(v.chars)} ELSE {v}

Recasings(fragments) ==
  { r \in [DOMAIN fragments -> UNION {RecasingsOfValue(fragments[n]) :
                                        n \in DOMAIN fragments}] :
      \A n \in DOMAIN fragments : r[n] \in RecasingsOfValue(fragments[n]) }

AsciiOnly(fragments) ==
  \A n \in DOMAIN fragments : Kelvin \notin Range(fragments[n].chars)

SameKeysUnderRecasing ==
  /\ \A r \in Recasings(texts) :
       Range(extractIssueKeys(r)) = Range(issueKeys)
  /\ \A k \in Range(issueKeys) : Range(k) \cap LowerLetters = {}

\* C12 as stated: any text and any re-casing of its letters yield the same
\* key set, and every returned key is in capitals.
C12_Original == pc = "extracted" => SameKeysUnderRecasing

\* C12: a text whose letters are ASCII and any re-casing of those letters
\* yield the same key set, and every returned key is in capitals.
C12_CaseInsensitiveOnAscii ==
  (pc = "extracted" /\ AsciiOnly(texts)) => SameKeysUnderRecasing

C12_Witness ==
  /\ pc = "extracted"
  /\ texts[1] = Str(<<"a","b","-","1","C","D","-","2","2">>)
  /\ texts[2] = Str(<<"c","d","-","2","2",";">> \o KeyXY5 \o <<" ">> \o KeyXY5)
  /\ issueKeys = <<<<"C","D","-","2","2">>, KeyXY5>>

\* C13: every publish of a run carries the one body built before the first
\* publish, and a completed run has issued as many publish requests as the
\* final target set has keys.
C13_OneBodyForAllTargets ==
  /\ \A n \in DOMAIN published :
       /\ published[n].body = commentText
       /\ published[n].body = published[1].body
  /\ pc = "postComment" =>
       commentText = buildComment(pr, commentText.files, commits.lines)
  /\ Cardinality(CallsOf("postComment")) <= Len(allKeys)
  /\ exit = "completed" =>
       /\ Cardinality(CallsOf("postComment")) = Len(allKeys)
       /\ Len(published) = Len(allKeys)

C13_Witness ==
  /\ exit = "completed"
  /\ Len(allKeys) = 3
  /\ Len(published) = 3
  /\ published[1].body = published[3].body
  /\ published[1].body.title = Str(<<"a","b","-","1">> \o <<" ">> \o KeyCD2)

\* the keys the pattern finds in a value as it is written
RawKeysOf(v) == IF v.type = "string" THEN KeyTokensOf(v.chars) ELSE {}

\* C14: in the single-key revision, when the title holds no issue key and
\* the branch name holds one, the run does not fail for want of a key: the
\* branch name's key is found and the comment is posted to it.
C14_BranchKeyIsFound ==
  ( /\ pc = "done"
    /\ ~Falsy(JIRA_TOKEN)
    /\ wasMerged(pr)
    /\ RawKeysOf(pr.title) = {}
    /\ RawKeysOf(pr.ref) # {} ) =>
      /\ exit # "nokey"
      /\ \A n \in CallsOf("postComment") : calls[n].key \in RawKeysOf(pr.ref)

Capitals(k) == [n \in DOMAIN k |-> CapitalOf(k[n])]

\* C15: every key of the target set, the resolver's keys included, is a
\* well-formed key in capitals, and no two keys of the set, and no two
\* published keys, differ only in letter case.
C15_TargetsNormalized ==
  /\ \A k \in Range(allKeys) : WellFormedKey(k)
  /\ \A j, k \in Range(allKeys) : Capitals(j) = Capitals(k) => j = k
  /\ \A j, k \in PublishedKeys : Capitals(j) = Capitals(k) => j = k

IsGetIssue(c) == c.kind = "getIssue"

\* the keys the resolver was queried for, in the order of the queries
QueriedKeys ==
  [n \in DOMAIN SelectSeq(calls, IsGetIssue) |-> SelectSeq(calls, IsGetIssue)[n].key]

NoDuplicates(q) == \A m, n \in DOMAIN q : q[m] = q[n] => m = n

\* C16: the resolver queries of a run are the seed keys, each once and in
\* order, whatever the answers add to the working set; once the expansion
\* is over there are as many queries as distinct seed keys.
C16_EverySeedResolvedOnce ==
  /\ NoDuplicates(issueKeys)
  /\ Len(QueriedKeys) <= Len(issueKeys)
  /\ QueriedKeys = SubSeq(issueKeys, 1, Len(QueriedKeys))
  /\ \A n \in DOMAIN resolved : resolved[n].key = issueKeys[n]
  /\ (pc = "postComment" \/ exit = "completed") =>
       /\ QueriedKeys = issueKeys
       /\ Len(resolved) = Cardinality(Range(issueKeys))

C16_Witness ==
  /\ pc = "postComment"
  /\ QueriedKeys = <<KeyAB1, KeyCD2>>
  /\ resolved[1].related = <<KeyXY5>>
  /\ resolved[2].related = <<KeyAB1, KeyXY5>>
  /\ allKeys = <<KeyAB1, KeyCD2, KeyXY5>>

\* C17: a failed resolver query never marks the run failed: no run is marked
\* failed while it is expanding, and a completed run whose publishes all
\* succeeded is not marked failed, however many queries failed.
C17_ResolverFailureNeverFailsRun ==
  /\ pc = "getRelatedIssueKeys" => ~failed
  /\ (pc = "postComment" /\ published = <<>>) => ~failed
  /\ ( /\ exit = "completed"
       /\ \A n \in DOMAIN published : published[n].response = "ok" ) => ~failed

C17_Witness ==
  /\ exit = "completed"
  /\ ~failed
  /\ Len(resolved) = 2
  /\ resolved[1].response = "neterr"
  /\ resolved[2].response = "http"
  /\ Len(published) = 2
  /\ \A n \in DOMAIN published : published[n].response = "ok"

\* C18: a publish request is issued only when the query of every seed key
\* has come back, with a result or a failure: every query precedes every
\* publish, and the target set is already what it will be at the end.
C18_ExpansionBeforePublish ==
  CallsOf("postComment") # {} =>
    /\ Len(resolved) = Len(issueKeys)
    /\ \A n \in DOMAIN issueKeys : resolved[n].key = issueKeys[n]
    /\ \A g \in CallsOf("getIssue"), p \in CallsOf("postComment") : g < p
    /\ Range(allKeys) = Range(issueKeys) \cup RelatedOfSeeds

C18_Witness ==
  /\ pc = "postComment"
  /\ published = <<>>
  /\ Len(issueKeys) = 2
  /\ resolved[1].response = "ok"
  /\ resolved[1].related = <<KeyXY5>>
  /\ resolved[2].response = "http"
  /\ calls[Len(calls)].kind = "postComment"

RECURSIVE TokensFrom(_, _)
\* the key-shaped tokens of u that start at position a or later, left to right
TokensFrom(u, a) ==
  IF a > Len(u) THEN <<>>
  ELSE IF \E b \in a..Len(u) : IsKeyTokenAt(u, a, b)
  THEN <<SubSeq(u, a, CHOOSE b \in a..Len(u) : IsKeyTokenAt(u, a, b))>>
       \o TokensFrom(u, a + 1)
  ELSE TokensFrom(u, a + 1)

RECURSIVE KeepFirst(_)
\* q without the later occurrences of what it already holds
KeepFirst(q) ==
  IF q = <<>> THEN <<>>
  ELSE IF q[Len(q)] \in Range(SubSeq(q, 1, Len(q) - 1))
  THEN KeepFirst(SubSeq(q, 1, Len(q) - 1))
  ELSE Append(KeepFirst(SubSeq(q, 1, Len(q) - 1)), q[Len(q)])

\* title, branch, description, then the commit messages in order
SourcesInOrder == <<pr.title, pr.ref, pr.body>> \o commits.messages

\* the keys of the sources in reading order, repeats included
OccurrencesInOrder ==
  Flatten([n \in DOMAIN SourcesInOrder |->
             IF SourcesInOrder[n].type = "string"
             THEN TokensFrom(Capitals(SourcesInOrder[n].chars), 1)
             ELSE <<>>])

RelatedInOrder == Flatten([n \in DOMAIN resolved |-> resolved[n].related])

IsPostComment(c) == c.kind = "postComment"

\* C19: publish requests go out in the insertion order of the target set:
\* the seed keys by first occurrence over title, branch, description and
\* commit messages, then the related keys not yet present, in the order
\* their seeds were resolved and they were returned.
C19_PublishInInsertionOrder ==
  /\ pc = "getModifiedFiles" => issueKeys = KeepFirst(OccurrencesInOrder)
  /\ pc \in {"getRelatedIssueKeys", "postComment"} =>
       allKeys = KeepFirst(issueKeys \o RelatedInOrder)
  /\ \A n \in DOMAIN SelectSeq(calls, IsPostComment) :
       SelectSeq(calls, IsPostComment)[n].key = allKeys[n]
  /\ \A n \in DOMAIN published : published[n].key = allKeys[n]

C19_Witness ==
  /\ exit = "completed"
  /\ pr.title = Str(<<"a","b","-","1">> \o <<" ">> \o KeyCD2)
  /\ issueKeys = <<KeyAB1, KeyCD2>>
  /\ resolved[1].related = <<KeyXY5, KeyAB1>>
  /\ allKeys = <<KeyAB1, KeyCD2, KeyXY5>>
  /\ Len(published) = 3
  /\ published[3].key = KeyXY5

\* C20: a run that has ended has ended in a recognized terminal state: the
\* configuration failure, the unmerged no-op, the no-key failure, or
\* completed with a publish attempted for every target; no run ends by an
\* error leaving runWithPR.
C20_OnlyRecognizedExits ==
  pc = "done" =>
    /\ exit \in {"config", "unmerged", "nokey", "completed"}
    /\ exit = "completed" => PublishedKeys = Range(allKeys)

\* C21: when the token or the base address is missing and the pull request
\* was closed without being merged, the run ends as a failed configuration
\* error, not as the no-op, and without any network call.
C21_ConfigBeforeMergeGate ==
  ( /\ pc = "done"
    /\ Falsy(JIRA_TOKEN) \/ Falsy(JIRA_DOMAIN)
    /\ ~(pr.present /\ pr.merged = "true") ) =>
      /\ exit = "config"
      /\ failed
      /\ calls = <<>>

C21_Witness ==
  /\ pc = "done"
  /\ ~Falsy(JIRA_TOKEN)
  /\ JIRA_DOMAIN = Undefined
  /\ pr.present
  /\ pr.merged = "false"
  /\ exit = "config"
  /\ failed

\* C22: the failed status is sticky: once the run is marked failed, no step,
\* be it a later successful publish to another key or the end of the run,
\* takes the mark away.
C22_FailedIsSticky == [][failed => failed']_vars

C22_Witness ==
  /\ exit = "completed"
  /\ Len(published) = 3
  /\ published[1].response = "http"
  /\ published[2].response = "ok"
  /\ published[3].response = "ok"
  /\ failed

\* the requests sent and not yet come back, of the resolver and the publisher
QueriesInFlight == Cardinality(CallsOf("getIssue")) - Len(resolved)

PublishesInFlight == Cardinality(CallsOf("postComment")) - Len(published)

\* C23: at every moment at most one tracker request is in flight: a request
\* goes out only when the one before it has come back, and a resolver query
\* and a publish are never in flight together.
C23_OneTrackerRequestInFlight ==
  /\ QueriesInFlight \in {0, 1}
  /\ PublishesInFlight \in {0, 1}
  /\ QueriesInFlight + PublishesInFlight <= 1
  /\ QueriesInFlight = 1 <=> pc = "getRelatedIssueKeys"
  /\ PublishesInFlight = 1 <=> pc = "postComment"

C23_Witness ==
  /\ pc = "postComment"
  /\ Len(resolved) = 2
  /\ Len(published) = 1
  /\ Cardinality(CallsOf("getIssue")) = 2
  /\ Cardinality(CallsOf("postComment")) = 2

====
